---- MODULE Spec2Model ----
(***************************************************************************)
(* OpenObservationCxx: the lock primitive (Locking.cpp) and the            *)
(* thread-local observation-transaction slot (ThreadLocal.cpp).            *)
(*                                                                         *)
(* The six exported functions are thin wrappers around swift::Mutex (a     *)
(* plain, non-recursive platform mutex) and a SWIFT_THREAD_LOCAL_TYPE      *)
(* cell.  A call that breaks the mutex's contract (use of a buffer that    *)
(* was never constructed, a second construction, a lock by the owner, an   *)
(* unlock by a thread that is not the owner) is undefined behaviour; it is *)
(* modelled as a choice among the outcomes the platform mutexes produce:   *)
(* the call goes through, the call blocks for ever, or the process traps.  *)
(***************************************************************************)
EXTENDS Integers, FiniteSets

\* ------------------------------------------------------------------ bounds
NumThreads == 3
NumLocks == 2
MaxPtr == 2
Cycles == 2

Threads == 1..NumThreads
Locks == 1..NumLocks
Pointers == 0..MaxPtr

\* The null pointer: the value of a thread's cell before its first set.
Null == 0

\* sizeof(Mutex) on the platforms of the build (os_unfair_lock, SRWLOCK,
\* pthread_mutex_t), and 0: the zero-sized type lock_size's floor is for.
SizeofMutexChoices == {0, 4, 40}

VARIABLES
  sizeofMutex,  \* sizeof(Mutex): fixed for the process
  mutex,        \* mutex[l]: the Mutex object in buffer l
  waiting,      \* waiting[t]: the buffer in whose lock() call thread t is ({} if none)
  Value,        \* Value[t]: thread t's cell of the thread-local Value
  pointee,      \* pointee[p]: the caller's object that the non-null pointer p names
  returned,     \* the last call that returned: its thread, function and result
  crashed,      \* the process trapped
  holds,        \* history: holds[t], the buffers t locked and has not unlocked since
  lastSet,      \* history: lastSet[t], the argument of t's latest set ({} if none)
  firstSize,    \* history: the first result of lock_size ({} if none)
  counter,      \* client: the shared counter guarded by buffer 1
  tmp,          \* client: tmp[t], the counter value t read
  cpc,          \* client: cpc[t], the position of worker t
  cycles        \* client: cycles[t], the cycles t completed

lockVars == <<mutex, waiting, holds>>
tlsVars == <<Value, lastSet, pointee>>
sizeVars == <<sizeofMutex, firstSize>>
coreVars == <<sizeofMutex, mutex, waiting, Value, returned, crashed, holds,
              lastSet, firstSize, pointee>>
clientVars == <<counter, tmp, cpc, cycles>>
vars == <<sizeofMutex, mutex, waiting, Value, returned, crashed, holds,
          lastSet, firstSize, pointee, counter, tmp, cpc, cycles>>

\* The contents of a lock buffer: raw memory, or a Mutex that is unlocked or
\* locked by a thread.
Raw == [st |-> "raw"]
Unlocked == [st |-> "unlocked"]
LockedBy(t) == [st |-> "locked", owner |-> t]

\* What a call handed back: a value (size, get) or nothing (the void functions).
RetVal(t, f, v) == [thr |-> t, op |-> f, val |-> v]
RetVoid(t, f) == [thr |-> t, op |-> f]

Init ==
  /\ sizeofMutex \in SizeofMutexChoices
  /\ mutex = [l \in Locks |-> Raw]
  /\ waiting = [t \in Threads |-> {}]
  /\ Value = [t \in Threads |-> Null]
  /\ pointee = [p \in Pointers \ {Null} |-> "intact"]
  /\ returned = [op |-> "none"]
  /\ crashed = FALSE
  /\ holds = [t \in Threads |-> {}]
  /\ lastSet = [t \in Threads |-> {}]
  /\ firstSize = {}
  /\ counter = 0
  /\ tmp = [t \in Threads |-> 0]
  /\ cpc = [t \in Threads |-> "idle"]
  /\ cycles = [t \in Threads |-> 0]

\* A thread can make a call when the process runs and it is not inside lock().
CanCall(t) == ~crashed /\ waiting[t] = {}

\* ------------------------------------------------------------ Locking.cpp

lock_size_nofloor(bytes) == bytes

\* The value _swift_openobservation_lock_size returns when sizeof(Mutex) = bytes.
lock_size(bytes) == IF bytes < 1 THEN 1 ELSE bytes

\* _swift_openobservation_lock_size
size(t) ==
  /\ CanCall(t)
  /\ returned' = RetVal(t, "size", lock_size(sizeofMutex))
  /\ firstSize' = IF firstSize = {} THEN {lock_size(sizeofMutex)} ELSE firstSize
  /\ UNCHANGED <<sizeofMutex, crashed>>
  /\ UNCHANGED lockVars
  /\ UNCHANGED tlsVars

lock_init_held(t, l) ==
  /\ CanCall(t)
  /\ mutex' = [mutex EXCEPT ![l] = LockedBy(t)]
  /\ returned' = RetVoid(t, "init")
  /\ UNCHANGED <<waiting, holds, crashed>>
  /\ UNCHANGED tlsVars
  /\ UNCHANGED sizeVars

\* _swift_openobservation_lock_init: new (&lock) Mutex() leaves an unlocked mutex
\* in the buffer, whatever the buffer held.
lock_init(t, l) ==
  /\ CanCall(t)
  /\ mutex' = [mutex EXCEPT ![l] = Unlocked]
  /\ returned' = RetVoid(t, "init")
  /\ UNCHANGED <<waiting, holds, crashed>>
  /\ UNCHANGED tlsVars
  /\ UNCHANGED sizeVars

MutexLock_nowait(m, t) ==
  CASE m.st = "unlocked" -> {"acquired"}
    [] m.st = "raw" -> {"through", "trap"}
    [] m.st = "locked" /\ m.owner = t -> {"trap"}
    [] OTHER -> {"acquired"}

MutexLock_recursive(m, t) ==
  CASE m.st = "unlocked" -> {"acquired"}
    [] m.st = "raw" -> {"through", "trap"}
    [] m.st = "locked" /\ m.owner = t -> {"acquired"}
    [] OTHER -> {}

\* Mutex::lock by thread t on a buffer holding m: the ways the call can end.
\* On an unlocked mutex it takes the mutex.  On a mutex another thread has
\* locked it has no way to end: the call waits.  On raw memory and on a mutex
\* t itself has locked the behaviour is undefined: the call waits for ever,
\* traps, or (raw memory) goes through without a mutex to take.
MutexLock(m, t) ==
  CASE m.st = "unlocked" -> {"acquired"}
    [] m.st = "raw" -> {"through", "trap"}
    [] m.st = "locked" /\ m.owner = t -> {"trap"}
    [] OTHER -> {}

lock_lock_clears(t, l) ==
  /\ CanCall(t)
  /\ waiting' = [waiting EXCEPT ![t] = {l}]
  /\ Value' = [Value EXCEPT ![t] = Null]
  /\ UNCHANGED <<mutex, holds, returned, crashed, lastSet, pointee>>
  /\ UNCHANGED sizeVars

\* _swift_openobservation_lock_lock, the call: thread t enters lock.lock().
lock_lock(t, l) ==
  /\ CanCall(t)
  /\ waiting' = [waiting EXCEPT ![t] = {l}]
  /\ UNCHANGED <<mutex, holds, returned, crashed>>
  /\ UNCHANGED tlsVars
  /\ UNCHANGED sizeVars

lock_lock_return_global(t, l) ==
  /\ ~crashed
  /\ waiting[t] = {l}
  /\ \A k \in Locks : mutex[k].st # "locked"
  /\ \E o \in MutexLock(mutex[l], t) :
       IF o = "trap"
       THEN /\ crashed' = TRUE
            /\ UNCHANGED <<mutex, waiting, holds, returned>>
       ELSE /\ mutex' = IF o = "acquired"
                        THEN [mutex EXCEPT ![l] = LockedBy(t)] ELSE mutex
            /\ waiting' = [waiting EXCEPT ![t] = {}]
            /\ holds' = [holds EXCEPT ![t] = @ \cup {l}]
            /\ returned' = RetVoid(t, "lock")
            /\ UNCHANGED crashed
  /\ UNCHANGED tlsVars
  /\ UNCHANGED sizeVars

lock_lock_return_ordered(t, l) ==
  /\ ~crashed
  /\ waiting[t] = {l}
  /\ \A u \in Threads : u < t => waiting[u] # {l}
  /\ \E o \in MutexLock(mutex[l], t) :
       IF o = "trap"
       THEN /\ crashed' = TRUE
            /\ UNCHANGED <<mutex, waiting, holds, returned>>
       ELSE /\ mutex' = IF o = "acquired"
                        THEN [mutex EXCEPT ![l] = LockedBy(t)] ELSE mutex
            /\ waiting' = [waiting EXCEPT ![t] = {}]
            /\ holds' = [holds EXCEPT ![t] = @ \cup {l}]
            /\ returned' = RetVoid(t, "lock")
            /\ UNCHANGED crashed
  /\ UNCHANGED tlsVars
  /\ UNCHANGED sizeVars

\* _swift_openobservation_lock_lock, the end of the call: lock.lock() returns
\* to t with the mutex taken, or traps.
lock_lock_return(t, l) ==
  /\ ~crashed
  /\ waiting[t] = {l}
  /\ \E o \in MutexLock(mutex[l], t) :
       IF o = "trap"
       THEN /\ crashed' = TRUE
            /\ UNCHANGED <<mutex, waiting, holds, returned>>
       ELSE /\ mutex' = IF o = "acquired"
                        THEN [mutex EXCEPT ![l] = LockedBy(t)] ELSE mutex
            /\ waiting' = [waiting EXCEPT ![t] = {}]
            /\ holds' = [holds EXCEPT ![t] = @ \cup {l}]
            /\ returned' = RetVoid(t, "lock")
            /\ UNCHANGED crashed
  /\ UNCHANGED tlsVars
  /\ UNCHANGED sizeVars

MutexUnlock_norelease(m, t) == {"through"}

MutexUnlock_checked(m, t) == {"released", "trap"}

\* Mutex::unlock by thread t on a buffer holding m: the ways the call can end.
\* On a mutex t has locked it releases the mutex.  Anything else is undefined:
\* the call traps, or goes through (leaving a mutex unlocked, raw memory raw).
MutexUnlock(m, t) ==
  CASE m.st = "locked" /\ m.owner = t -> {"released"}
    [] m.st = "raw" -> {"through", "trap"}
    [] OTHER -> {"released", "trap"}

\* _swift_openobservation_lock_unlock
lock_unlock(t, l) ==
  /\ CanCall(t)
  /\ \E o \in MutexUnlock(mutex[l], t) :
       IF o = "trap"
       THEN /\ crashed' = TRUE
            /\ UNCHANGED <<mutex, holds, returned>>
       ELSE /\ mutex' = IF o = "released"
                        THEN [mutex EXCEPT ![l] = Unlocked] ELSE mutex
            /\ holds' = [holds EXCEPT ![t] = @ \ {l}]
            /\ returned' = RetVoid(t, "unlock")
            /\ UNCHANGED crashed
  /\ UNCHANGED waiting
  /\ UNCHANGED tlsVars
  /\ UNCHANGED sizeVars

\* --------------------------------------------------------- ThreadLocal.cpp

Value_get_sentinel(V, t) == IF V[t] = Null THEN 0 - 1 ELSE V[t]

\* Value.get() on thread t: the thread's own cell of Value.
Value_get(V, t) == V[t]

Value_set_global(V, t, p) == [u \in Threads |-> p]

Value_set_keepfirst(V, t, p) == IF V[t] = Null THEN [V EXCEPT ![t] = p] ELSE V

\* Value.set(p) on thread t: the thread's own cell of Value becomes p.
Value_set(V, t, p) == [V EXCEPT ![t] = p]

\* _swift_openobservation_tls_get
tls_get(t) ==
  /\ CanCall(t)
  /\ returned' = RetVal(t, "get", Value_get(Value, t))
  /\ UNCHANGED <<Value, lastSet, pointee, crashed>>
  /\ UNCHANGED lockVars
  /\ UNCHANGED sizeVars

tls_set_serialised(t, p) ==
  /\ CanCall(t)
  /\ \A l \in Locks : mutex[l].st # "locked"
  /\ Value' = Value_set(Value, t, p)
  /\ lastSet' = [lastSet EXCEPT ![t] = {p}]
  /\ returned' = RetVoid(t, "set")
  /\ UNCHANGED <<pointee, crashed>>
  /\ UNCHANGED lockVars
  /\ UNCHANGED sizeVars

tls_set_frees(t, p) ==
  /\ CanCall(t)
  /\ Value' = Value_set(Value, t, p)
  /\ lastSet' = [lastSet EXCEPT ![t] = {p}]
  /\ pointee' = IF Value[t] = Null THEN pointee
                ELSE [pointee EXCEPT ![Value[t]] = "freed"]
  /\ returned' = RetVoid(t, "set")
  /\ UNCHANGED crashed
  /\ UNCHANGED lockVars
  /\ UNCHANGED sizeVars

\* _swift_openobservation_tls_set: the pointer is stored, not followed.
tls_set(t, p) ==
  /\ CanCall(t)
  /\ Value' = Value_set(Value, t, p)
  /\ lastSet' = [lastSet EXCEPT ![t] = {p}]
  /\ returned' = RetVoid(t, "set")
  /\ UNCHANGED <<pointee, crashed>>
  /\ UNCHANGED lockVars
  /\ UNCHANGED sizeVars

\* ------------------------------------------------------------ the callers
\* The caller's side of the lock's contract: a buffer is constructed once,
\* before any lock or unlock on it; a thread locks a buffer it does not hold
\* and unlocks a buffer it holds.
Constructed(l) == mutex[l].st # "raw"

MayInit(t, l) == ~Constructed(l)

MayLock(t, l) == Constructed(l) /\ l \notin holds[t]

MayUnlock(t, l) == Constructed(l) /\ l \in holds[t]

\* Threads that keep the contract, calling the lock functions at any time.
NextLock ==
  \/ \E t \in Threads, l \in Locks :
       MayInit(t, l) /\ lock_init(t, l) /\ UNCHANGED clientVars
  \/ \E t \in Threads, l \in Locks :
       MayLock(t, l) /\ lock_lock(t, l) /\ UNCHANGED clientVars
  \/ \E t \in Threads, l \in Locks : lock_lock_return(t, l) /\ UNCHANGED clientVars
  \/ \E t \in Threads, l \in Locks :
       MayUnlock(t, l) /\ lock_unlock(t, l) /\ UNCHANGED clientVars

SpecLock == Init /\ [][NextLock]_vars

\* Threads calling the slot functions at any time.
NextTls ==
  \/ \E t \in Threads : tls_get(t) /\ UNCHANGED clientVars
  \/ \E t \in Threads, p \in Pointers : tls_set(t, p) /\ UNCHANGED clientVars

SpecTls == Init /\ [][NextTls]_vars

\* Threads that keep the contract, making any of the six calls at any time.
Next ==
  \/ \E t \in Threads : size(t) /\ UNCHANGED clientVars
  \/ NextLock
  \/ NextTls

Spec == Init /\ [][Next]_vars

\* Threads that call the lock functions with no regard for the contract.
NextAny ==
  \/ \E t \in Threads, l \in Locks : lock_init(t, l) /\ UNCHANGED clientVars
  \/ \E t \in Threads, l \in Locks : lock_lock(t, l) /\ UNCHANGED clientVars
  \/ \E t \in Threads, l \in Locks : lock_lock_return(t, l) /\ UNCHANGED clientVars
  \/ \E t \in Threads, l \in Locks : lock_unlock(t, l) /\ UNCHANGED clientVars

SpecAny == Init /\ [][NextAny]_vars

\* Threads that skip the handshake on buffer 1: they lock and unlock it
\* whether or not init was called on it, and keep the rest of the contract
\* (no lock of a buffer they hold, unlock only of a buffer they hold, one init,
\* on a buffer no thread holds).
MayInitLate(t, l) == ~Constructed(l) /\ \A u \in Threads : l \notin holds[u]

MayLockFresh(t, l) == l \notin holds[t]

MayUnlockFresh(t, l) == l \in holds[t]

NextFresh ==
  \/ \E t \in Threads : size(t) /\ UNCHANGED clientVars
  \/ \E t \in Threads : MayInitLate(t, 1) /\ lock_init(t, 1) /\ UNCHANGED clientVars
  \/ \E t \in Threads : MayLockFresh(t, 1) /\ lock_lock(t, 1) /\ UNCHANGED clientVars
  \/ \E t \in Threads : lock_lock_return(t, 1) /\ UNCHANGED clientVars
  \/ \E t \in Threads :
       MayUnlockFresh(t, 1) /\ lock_unlock(t, 1) /\ UNCHANGED clientVars
  \/ NextTls

SpecFresh == Init /\ [][NextFresh]_vars

\* The counter test: buffer 1 is constructed, then every thread runs Cycles
\* times lock, read the counter, write the value read plus one, unlock.
c_setup ==
  /\ \A t \in Threads : cpc[t] = "idle"
  /\ lock_init(1, 1)
  /\ cpc' = [t \in Threads |-> "lock"]
  /\ UNCHANGED <<counter, tmp, cycles>>

c_lock(t) ==
  /\ cpc[t] = "lock"
  /\ lock_lock(t, 1)
  /\ cpc' = [cpc EXCEPT ![t] = "locking"]
  /\ UNCHANGED <<counter, tmp, cycles>>

c_locked(t) ==
  /\ cpc[t] = "locking"
  /\ lock_lock_return(t, 1)
  /\ cpc' = [cpc EXCEPT ![t] = "read"]
  /\ UNCHANGED <<counter, tmp, cycles>>

c_read(t) ==
  /\ cpc[t] = "read"
  /\ tmp' = [tmp EXCEPT ![t] = counter]
  /\ cpc' = [cpc EXCEPT ![t] = "write"]
  /\ UNCHANGED <<counter, cycles>>
  /\ UNCHANGED coreVars

c_write(t) ==
  /\ cpc[t] = "write"
  /\ counter' = tmp[t] + 1
  /\ cpc' = [cpc EXCEPT ![t] = "unlock"]
  /\ UNCHANGED <<tmp, cycles>>
  /\ UNCHANGED coreVars

c_unlock(t) ==
  /\ cpc[t] = "unlock"
  /\ lock_unlock(t, 1)
  /\ cycles' = [cycles EXCEPT ![t] = @ + 1]
  /\ cpc' = [cpc EXCEPT ![t] = IF cycles[t] + 1 = Cycles THEN "done" ELSE "lock"]
  /\ UNCHANGED <<counter, tmp>>

NextCounter ==
  \/ c_setup
  \/ \E t \in Threads : c_lock(t)
  \/ \E t \in Threads : c_locked(t)
  \/ \E t \in Threads : c_read(t)
  \/ \E t \in Threads : c_write(t)
  \/ \E t \in Threads : c_unlock(t)

SpecCounter == Init /\ [][NextCounter]_vars

\* The counter test with every thread scheduled fairly: a worker whose next
\* step stays possible takes it.
Worker(t) == c_lock(t) \/ c_locked(t) \/ c_read(t) \/ c_write(t) \/ c_unlock(t)

SpecCounterFair ==
  /\ Init
  /\ [][NextCounter]_vars
  /\ WF_vars(c_setup)
  /\ \A t \in Threads : WF_vars(Worker(t))

\* ------------------------------------------------------------- properties

\* The threads between the return of their lock call on l and their unlock of l.
Inside(l) == {t \in Threads : l \in holds[t]}

\* C1: mutual exclusion.  With callers that keep the contract, at most one
\* thread at a time is between the return of its lock call on a buffer and
\* its matching unlock call.
C1_MutualExclusion == \A l \in Locks : Cardinality(Inside(l)) <= 1

\* C1's case: a thread is inside its critical section on buffer 1 while two
\* other threads are in lock() on the same buffer.
C1_Witness ==
  \E t \in Threads :
    /\ Inside(1) = {t}
    /\ Cardinality({u \in Threads : waiting[u] = {1}}) >= 2

\* C2: no lost update.  When every thread has finished its Cycles cycles of
\* lock, read, write, unlock, the counter is NumThreads * Cycles.
C2_NoLostUpdate ==
  (\A t \in Threads : cpc[t] = "done") => counter = NumThreads * Cycles

\* C2's case: all threads have finished, each after Cycles cycles.
C2_Witness ==
  /\ \A t \in Threads : cpc[t] = "done" /\ cycles[t] = Cycles
  /\ counter > 0

\* C3: thread-local isolation.  A set on one thread leaves the cell of every
\* other thread as it was, and a get returns null or a value the calling
\* thread itself stored, never one only another thread stored.
C3_SetFrame ==
  \A t1 \in Threads, p \in Pointers :
    tls_set(t1, p) => \A t2 \in Threads \ {t1} : Value'[t2] = Value[t2]

C3_GetOwn ==
  returned.op = "get" =>
    \/ returned.val = Null
    \/ returned.val \in lastSet[returned.thr]

C3_Isolation == []C3_GetOwn /\ [][C3_SetFrame]_vars

\* C3's case: two threads have stored different non-null values and a get on
\* one of them has returned its own.
C3_Witness ==
  \E t1, t2 \in Threads :
    /\ lastSet[t1] = {1}
    /\ lastSet[t2] = {MaxPtr}
    /\ MaxPtr # 1
    /\ returned = RetVal(t2, "get", MaxPtr)

\* C4: last write wins.  A get on a thread that has called set returns the
\* argument of that thread's latest set, null included.
C4_LastWriteWins ==
  (returned.op = "get" /\ lastSet[returned.thr] # {}) =>
    lastSet[returned.thr] = {returned.val}

\* C4's case: a get returned null on a thread whose latest set stored null,
\* while the other threads' latest sets stored non-null values.
C4_Witness ==
  /\ returned.op = "get"
  /\ lastSet[returned.thr] = {Null}
  /\ returned.val = Null
  /\ \A u \in Threads \ {returned.thr} : lastSet[u] = {MaxPtr}

\* C5: default value.  A get on a thread that never called set returns null,
\* whatever the other threads have stored.
C5_DefaultValue ==
  (returned.op = "get" /\ lastSet[returned.thr] = {}) => returned.val = Null

\* C5's case: a get returned on a thread that never called set, after every
\* other thread stored a non-null value.
C5_Witness ==
  /\ returned.op = "get"
  /\ lastSet[returned.thr] = {}
  /\ \A u \in Threads \ {returned.thr} : lastSet[u] # {} /\ Value[u] # Null

\* C6: lock returns only once acquired.  A thread in lock() on a buffer that
\* another thread has locked stays in lock(); its call returns only from a
\* state where the mutex was unlocked, and leaves the mutex locked by it.
C6_Step ==
  \A t \in Threads, l \in Locks :
    waiting[t] = {l} =>
      /\ (mutex[l].st = "locked" /\ mutex[l].owner # t) => waiting'[t] = {l}
      /\ waiting'[t] # {l} =>
           /\ mutex[l] = Unlocked
           /\ mutex'[l] = LockedBy(t)
           /\ l \in holds'[t]

C6_ReturnsOnlyAcquired == [][C6_Step]_vars

\* C6's case: a thread is in lock() on a buffer whose lock call has just
\* returned to another thread.
C6_Witness ==
  \E t, u \in Threads, l \in Locks :
    /\ t # u
    /\ waiting[t] = {l}
    /\ mutex[l] = LockedBy(u)
    /\ returned = RetVoid(u, "lock")

\* C7: lock is the sole blocking point.  In every reachable state a thread
\* that is not inside lock() can complete size, get and set, init of a buffer
\* not yet constructed, and unlock of a buffer it holds, whatever locks are
\* held or waited for.
C7_OnlyLockBlocks ==
  \A t \in Threads :
    waiting[t] = {} =>
      /\ ENABLED (size(t) /\ returned' = RetVal(t, "size", returned'.val))
      /\ ENABLED (tls_get(t) /\ returned' = RetVal(t, "get", returned'.val))
      /\ \A p \in Pointers : ENABLED (tls_set(t, p) /\ returned' = RetVoid(t, "set"))
      /\ \A l \in Locks :
           /\ MayInit(t, l) =>
                ENABLED (lock_init(t, l) /\ returned' = RetVoid(t, "init"))
           /\ MayUnlock(t, l) =>
                ENABLED (lock_unlock(t, l) /\ returned' = RetVoid(t, "unlock"))

\* C7's case: a get has returned to a thread while another thread holds a
\* buffer's lock and a third is blocked in lock() on it, and the holder can
\* complete unlock.
C7_Witness ==
  \E l \in Locks, u, w \in Threads :
    /\ mutex[l] = LockedBy(u)
    /\ waiting[w] = {l}
    /\ ~ENABLED lock_lock_return(w, l)
    /\ returned.op = "get"
    /\ returned.thr \notin {u, w}
    /\ ENABLED (lock_unlock(u, l) /\ returned' = RetVoid(u, "unlock"))

\* C8: size returns a byte count of at least 1, the same on every call,
\* whatever calls came before it.
C8_SizeStable ==
  returned.op = "size" => (returned.val >= 1 /\ firstSize = {returned.val})

\* C8's case: size returned for a zero-sized Mutex to a thread that holds a
\* lock and has stored a value, while another thread is blocked in lock().
C8_Witness ==
  /\ returned.op = "size"
  /\ sizeofMutex = 0
  /\ holds[returned.thr] # {}
  /\ lastSet[returned.thr] \notin {{}, {Null}}
  /\ \E u \in Threads : waiting[u] # {}

\* C9: the lock is not reentrant.  While a thread is in lock() on a buffer
\* whose mutex it has itself locked, no step returns its call or grants it the
\* lock again.
C9_Step ==
  \A t \in Threads, l \in Locks :
    (waiting[t] = {l} /\ mutex[l] = LockedBy(t)) =>
      (waiting'[t] = {l} /\ holds'[t] = holds[t])

C9_NotReentrant == [][C9_Step]_vars

\* C9's case: self-deadlock.  A thread is in lock() on a buffer it has locked
\* and every other thread is blocked in lock() too, so none can unlock.
C9_Witness ==
  \E t \in Threads, l \in Locks :
    /\ ~crashed
    /\ waiting[t] = {l}
    /\ mutex[l] = LockedBy(t)
    /\ l \in holds[t]
    /\ \A u \in Threads \ {t} :
         \E k \in Locks : waiting[u] = {k} /\ mutex[k] = LockedBy(t)

\* C10: no error outcome.  With callers that keep the contract no call traps,
\* size hands back a byte count, get a pointer, and init, lock, unlock and set
\* nothing: there is no error value among the results.
C10_NoErrorOutcome ==
  /\ ~crashed
  /\ returned.op \in {"none", "size", "init", "lock", "unlock", "get", "set"}
  /\ returned.op = "size" => returned.val \in Nat \ {0}
  /\ returned.op = "get" => returned.val \in Pointers
  /\ returned.op \in {"init", "lock", "unlock", "set"} =>
       DOMAIN returned = {"thr", "op"}

\* C10's case: a get returned on a thread that never stored a value, while
\* that thread holds one lock and another thread holds the other.
C10_Witness ==
  /\ returned.op = "get"
  /\ lastSet[returned.thr] = {}
  /\ holds[returned.thr] # {}
  /\ \E u \in Threads \ {returned.thr} : holds[u] # {}

\* C11 as stated: every function behaves as defined whatever was called
\* before it; so lock, also on a buffer init was never called on, returns
\* only with the mutex locked by the caller alone, and no call traps.
C11_Original ==
  /\ ~crashed
  /\ \A l \in Locks : Cardinality(Inside(l)) <= 1
  /\ \A l \in Locks, t \in Threads : l \in holds[t] => mutex[l] = LockedBy(t)

\* C11, amended: size, init, get and set can be called and complete with no
\* call before them; lock and unlock behave as defined on the buffers init
\* was called on (one holder, who owns the mutex), and a trap comes only from
\* a lock or unlock on a buffer init was not called on.
C11_NoHandshakeButInit ==
  /\ ~crashed =>
       \A t \in Threads :
         waiting[t] = {} =>
           /\ ENABLED (size(t) /\ returned' = RetVal(t, "size", returned'.val))
           /\ ENABLED (tls_get(t) /\ returned' = RetVal(t, "get", returned'.val))
           /\ \A p \in Pointers :
                ENABLED (tls_set(t, p) /\ returned' = RetVoid(t, "set"))
           /\ \A l \in Locks :
                MayInitLate(t, l) =>
                  ENABLED (lock_init(t, l) /\ returned' = RetVoid(t, "init"))
  /\ \A l \in Locks :
       Constructed(l) =>
         /\ Cardinality(Inside(l)) <= 1
         /\ \A t \in Threads : l \in holds[t] <=> mutex[l] = LockedBy(t)
  /\ crashed =>
       \E l \in Locks, t \in Threads :
         ~Constructed(l) /\ (waiting[t] = {l} \/ l \in holds[t])

\* C11's case: lock has returned to two threads on a buffer init was never
\* called on, and both are inside.
C11_Witness ==
  /\ ~crashed
  /\ mutex[1] = Raw
  /\ Cardinality(Inside(1)) >= 2
  /\ returned.op = "lock"

\* C12: the two components are independent.  init, lock and unlock leave
\* every thread's cell as it was; get and set leave every mutex, waiter and
\* holder as they were; the cell of a thread inside lock() does not change.
C12_Step ==
  /\ \A t \in Threads, l \in Locks :
       (\/ lock_init(t, l)
        \/ lock_lock(t, l)
        \/ lock_lock_return(t, l)
        \/ lock_unlock(t, l)) => Value' = Value
  /\ \A t \in Threads :
       (tls_get(t) \/ \E p \in Pointers : tls_set(t, p)) =>
         (mutex' = mutex /\ waiting' = waiting /\ holds' = holds)
  /\ \A t \in Threads : waiting[t] # {} => Value'[t] = Value[t]

C12_Independent == [][C12_Step]_vars

\* C12's case: lock has returned to a thread whose cell holds a non-null
\* value, while a thread with another non-null value is blocked in lock() on
\* the same buffer.
C12_Witness ==
  \E t, u \in Threads, l \in Locks :
    /\ returned = RetVoid(t, "lock")
    /\ mutex[l] = LockedBy(t)
    /\ waiting[u] = {l}
    /\ Value[t] = MaxPtr
    /\ Value[u] \notin {Null, MaxPtr}

\* C13: get is read-only and set touches only the slot.  A get leaves every
\* cell and every pointee as they were, and repeats the result of the get
\* that returned just before it on the same thread; a set makes the caller's
\* cell its argument and leaves every pointee, old and new, as it was.
C13_Step ==
  /\ \A t \in Threads :
       tls_get(t) =>
         /\ Value' = Value
         /\ pointee' = pointee
         /\ (returned.op = "get" /\ returned.thr = t) => returned'.val = returned.val
  /\ \A t \in Threads, p \in Pointers :
       tls_set(t, p) => (Value'[t] = p /\ pointee' = pointee)

C13_GetReadOnlySetSlotOnly == [][C13_Step]_vars

\* C13's case: a get has returned a thread's non-null value after sets on
\* every thread, one of which replaced a non-null value by null, and every
\* pointee is intact.
C13_Witness ==
  /\ returned.op = "get"
  /\ returned.val = MaxPtr
  /\ \E u \in Threads \ {returned.thr} : lastSet[u] = {Null}
  /\ \A u \in Threads : lastSet[u] # {}
  /\ \A p \in Pointers \ {Null} : pointee[p] = "intact"

\* C14: acquisition order is not FIFO.  When a mutex is unlocked, each
\* thread in lock() on it can be the one whose call returns next, the others
\* staying in lock(), and a thread not yet in lock() can still call it.
C14_AnyWaiterMayAcquire ==
  \A l \in Locks :
    mutex[l] = Unlocked =>
      /\ \A w \in Threads :
           waiting[w] = {l} =>
             ENABLED (/\ lock_lock_return(w, l)
                      /\ mutex'[l] = LockedBy(w)
                      /\ \A u \in Threads \ {w} : waiting'[u] = waiting[u])
      /\ \A v \in Threads :
           (waiting[v] = {} /\ MayLock(v, l)) =>
             ENABLED (lock_lock(v, l) /\ waiting'[v] = {l})

\* C14's case: the holder's unlock has just returned and two threads are in
\* lock() on the buffer it released.
C14_Witness ==
  \E l \in Locks :
    /\ mutex[l] = Unlocked
    /\ returned.op = "unlock"
    /\ Cardinality({w \in Threads : waiting[w] = {l}}) >= 2
    /\ waiting[returned.thr] = {}

\* C15: progress under the lock discipline.  With workers that unlock what
\* they lock and never lock what they hold, scheduled fairly: whenever the
\* mutex is unlocked and a thread is in lock() on it, the mutex is eventually
\* locked again, and every worker finishes its cycles.
C15_Progress ==
  /\ (mutex[1] = Unlocked /\ \E t \in Threads : waiting[t] = {1})
       ~> (mutex[1].st = "locked")
  /\ <>(\A t \in Threads : cpc[t] = "done")

\* C15's case: the mutex is unlocked after a completed cycle and two threads
\* are blocked in lock() on it.
C15_Witness ==
  /\ mutex[1] = Unlocked
  /\ \E t \in Threads : cycles[t] >= 1
  /\ Cardinality({t \in Threads : waiting[t] = {1} /\ cpc[t] = "locking"}) >= 2

\* C16: init leaves the lock instance free.  An init step leaves the buffer
\* with an unlocked mutex that no thread holds, and while no thread holds a
\* constructed buffer its mutex is unlocked and every lock call on it can
\* return at once with the mutex taken.
C16_InitStep ==
  \A t \in Threads, l \in Locks :
    lock_init(t, l) => (mutex'[l] = Unlocked /\ \A u \in Threads : l \notin holds'[u])

C16_FreeUntilLocked ==
  \A l \in Locks :
    (Constructed(l) /\ Inside(l) = {}) =>
      /\ mutex[l] = Unlocked
      /\ \A t \in Threads :
           waiting[t] = {l} =>
             ENABLED (lock_lock_return(t, l) /\ mutex'[l] = LockedBy(t))

C16_InitLeavesFree == []C16_FreeUntilLocked /\ [][C16_InitStep]_vars

\* C16's case: init has just returned, the first lock call on the new mutex
\* is under way, and no thread has locked anything yet.
C16_Witness ==
  \E l \in Locks, t \in Threads :
    /\ returned.op = "init"
    /\ mutex[l] = Unlocked
    /\ waiting[t] = {l}
    /\ \A k \in Locks \ {l} : mutex[k] = Raw
    /\ \A u \in Threads : holds[u] = {}

\* C17: distinct lock instances are independent.  A lock or unlock step on
\* one buffer leaves the mutex, the holders and the waiters of every other
\* buffer as they were, and a thread can enter lock() on an unlocked mutex
\* and return from it whatever is held or waited for on the other buffers.
C17_Step ==
  \A t \in Threads, a \in Locks :
    (lock_lock(t, a) \/ lock_lock_return(t, a) \/ lock_unlock(t, a)) =>
      \A b \in Locks \ {a} :
        /\ mutex'[b] = mutex[b]
        /\ \A u \in Threads :
             /\ (b \in holds'[u]) = (b \in holds[u])
             /\ (waiting'[u] = {b}) = (waiting[u] = {b})

C17_FreeIsAcquirable ==
  \A b \in Locks :
    mutex[b] = Unlocked =>
      \A t \in Threads :
        /\ waiting[t] = {b} =>
             ENABLED (lock_lock_return(t, b) /\ mutex'[b] = LockedBy(t))
        /\ waiting[t] = {} => ENABLED (lock_lock(t, b) /\ waiting'[t] = {b})

C17_LocksIndependent == []C17_FreeIsAcquirable /\ [][C17_Step]_vars

\* C17's case: lock has just returned on one buffer to a thread while a
\* second thread holds another buffer and a third is blocked on that one.
C17_Witness ==
  \E a, b \in Locks, t, u, w \in Threads :
    /\ a # b
    /\ mutex[a] = LockedBy(u)
    /\ waiting[w] = {a}
    /\ mutex[b] = LockedBy(t)
    /\ returned = RetVoid(t, "lock")
    /\ t # u

====
